---- MODULE Spec2Model ----
(***************************************************************************)
(* Model of genetic-keyboard: the hand cost model (hand_movement.py) and    *)
(* the bone hierarchy (armature.py, linalg.py).                             *)
(*                                                                         *)
(* Numbers.  Python floats are modelled in fixed point: a float v is the    *)
(* integer 100*v (15 degrees is 1500, a contraction of 0.8 is 80, the       *)
(* literal 1 is 100).  A product of two floats is therefore held in units   *)
(* of 1/10000, which is the unit of every cost below; sums and comparisons  *)
(* are exact.  math.inf is the cost value Inf.                              *)
(***************************************************************************)
EXTENDS Integers, Sequences, FiniteSets, TLC

VARIABLES
    position,      \* the HandPosition instance (self of calculate_cost)
    shape_arg,     \* the hand_shape argument of the last calculate_cost call
    total_cost,    \* what the last calculate_cost call returned
    shape_kwargs,  \* keyword arguments of the last HandShape(...) call
    shape_exc,     \* how the last HandShape(...) call ended
    shapes,        \* the HandShape instances that construction has produced
    heap,          \* the Bone objects constructed so far; a Bone is its index
    ctor_parent,   \* history: the parent argument each Bone(...) call was given
    _bones,        \* Armature._bones, a dict: name -> Bone, in insertion order
    last_call,     \* the last Armature call: what it was given and how it ended
    ret_world,     \* the last get_transform_world call: its bone and its result
    ret_positions, \* the last Armature.get_worldspace_positions call and its result
    hands,         \* the Hands instance: left_shape and right_shape, as references
    tips,          \* the last get_fingertip_coords call: its hand and its result
    kb_keys,       \* Keyboard.keys: the list given to Keyboard(...), Key objects
    pop_order,     \* history: the order in which the working set gave up its keys
    kb_exc,        \* how Keyboard(keys) ended; "idle" before the call
    key_map,       \* Keyboard.key_map, a dict: letter -> 3-tuple
    kb_ret         \* the last find_letter or key_at call and its result

handVars == <<position, shape_arg, total_cost>>
shapeVars == <<shape_kwargs, shape_exc, shapes>>
armVars == <<heap, ctor_parent, _bones, last_call, ret_world>>
posVars == <<ret_positions>>
tipVars == <<hands, tips>>
kbVars == <<kb_keys, pop_order, kb_exc, key_map, kb_ret>>
vars == <<position, shape_arg, total_cost, shape_kwargs, shape_exc, shapes,
          heap, ctor_parent, _bones, last_call, ret_world, ret_positions,
          hands, tips, kb_keys, pop_order, kb_exc, key_map, kb_ret>>

----------------------------------------------------------------------------
(* Bounds *)

\* keyword arguments given to one HandPosition(...) call
MaxPoseKw == 1
\* how far (in 1/100) a pose value is placed outside a feasibility bound
MaxDev == 1
\* keyword arguments given to one HandShape(...) call
MaxShapeKw == 2
\* Bone objects constructed in one run
MaxBones == 3
\* length of the bone list given to Armature(...)
MaxList == 1
\* length of the key list given to Keyboard(...)
MaxKeys == 4

----------------------------------------------------------------------------
(* HandShape: the dataclass fields and their defaults *)

DefaultShape ==
    [ wrist_inwards_bound |-> 1500,
      wrist_inwards_difficulty |-> 100,
      wrist_outwards_bound |-> 3000,
      wrist_outwards_difficulty |-> 50,
      wrist_rest_position |-> 1000,
      thumb_root_position |-> <<4000, 2000>>,
      index_root_position |-> <<1900, 8000>>,
      middle_root_position |-> <<300, 8200>>,
      ring_root_position |-> <<-1600, 8000>>,
      pinky_root_position |-> <<-3000, 7800>>,
      thumb_length |-> 4500,
      index_length |-> 7000,
      middle_length |-> 7300,
      ring_length |-> 7100,
      pinky_length |-> 6500,
      index_max_splay |-> 3000,
      index_splay_cost |-> 30,
      middle_max_splay |-> 2000,
      middle_splay_cost |-> 35,
      ring_max_splay |-> 2300,
      ring_splay_cost |-> 40,
      pinky_max_splay |-> 4300,
      pinky_splay_cost |-> 20,
      thumb_down_splay_bound |-> 9000,
      thumb_up_splay_bound |-> 2000,
      thumb_rest_position |-> 4500,
      thumb_splay_cost |-> 25,
      index_max_contraction |-> 50,
      index_default_contraction |-> 80,
      index_contraction_cost |-> 30,
      middle_max_contraction |-> 55,
      middle_default_contraction |-> 80,
      middle_contraction_cost |-> 38,
      ring_max_contraction |-> 60,
      ring_default_contraction |-> 80,
      ring_contraction_cost |-> 43,
      pinky_max_contraction |-> 45,
      pinky_default_contraction |-> 80,
      pinky_contraction_cost |-> 27,
      thumb_max_contraction |-> 50,
      thumb_default_contraction |-> 80,
      thumb_contraction_cost |-> 20 ]

\* the scalar fields of HandShape that calculate_cost reads
ShapeScalarFields ==
    { "wrist_inwards_bound", "wrist_inwards_difficulty", "wrist_outwards_bound",
      "wrist_outwards_difficulty", "wrist_rest_position",
      "index_max_splay", "index_splay_cost", "middle_max_splay", "middle_splay_cost",
      "ring_max_splay", "ring_splay_cost", "pinky_max_splay", "pinky_splay_cost",
      "thumb_down_splay_bound", "thumb_up_splay_bound", "thumb_rest_position",
      "thumb_splay_cost",
      "index_max_contraction", "index_default_contraction", "index_contraction_cost",
      "middle_max_contraction", "middle_default_contraction", "middle_contraction_cost",
      "ring_max_contraction", "ring_default_contraction", "ring_contraction_cost",
      "pinky_max_contraction", "pinky_default_contraction", "pinky_contraction_cost",
      "thumb_max_contraction", "thumb_default_contraction", "thumb_contraction_cost" }

\* HandPosition: the dataclass fields and their defaults
DefaultPosition ==
    [ wrist_rotation |-> 0,
      thumb_splay |-> 0,
      thumb_extension |-> 100,
      index_splay |-> 0,
      index_extension |-> 100,
      middle_splay |-> 0,
      middle_extension |-> 100,
      ring_splay |-> 0,
      ring_extension |-> 100,
      pinky_splay |-> 0,
      pinky_extension |-> 100 ]

PositionFields == DOMAIN DefaultPosition

\* keyword arguments: a set of <<field, value>> pairs, one pair per field
KwFields(kwargs) == { kv[1] : kv \in kwargs }

\* the dataclass-generated __init__: every field is its keyword argument,
\* or its default when the argument is absent
DataclassInit(defaults, kwargs) ==
    [ f \in DOMAIN defaults |->
        IF f \in KwFields(kwargs)
        THEN (CHOOSE kv \in kwargs : kv[1] = f)[2]
        ELSE defaults[f] ]

----------------------------------------------------------------------------
(* HandShape construction *)

\* with every check of _assert_integrity dropped
_assert_integrity_nocheck(self) == TRUE

\* HandShape._assert_integrity: TRUE when no assertion fails.  The zip pairs
\* each digit's default contraction with its max contraction.
_assert_integrity(self) ==
    /\ self.index_default_contraction <= self.index_max_contraction
    /\ self.middle_default_contraction <= self.middle_max_contraction
    /\ self.ring_default_contraction <= self.ring_max_contraction
    /\ self.pinky_default_contraction <= self.pinky_max_contraction
    /\ self.thumb_default_contraction <= self.thumb_max_contraction

\* HandShape.__init__(*args, **kwargs).  The class body defines __init__, so
\* @dataclass does not generate one; super().__init__ is object.__init__,
\* which raises TypeError when it is handed any argument and stores nothing.
\* With no argument the instance has no attribute of its own and every field
\* reads the class default.  Result: how the call ended, and the instance
\* when it returned.
HandShape__init__(kwargs) ==
    IF kwargs # {}
    THEN [exc |-> "TypeError", made |-> {}]
    ELSE IF _assert_integrity(DefaultShape)
         THEN [exc |-> "ok", made |-> {DefaultShape}]
         ELSE [exc |-> "AssertionError", made |-> {}]

----------------------------------------------------------------------------
(* HandPosition.calculate_cost *)

Inf == [kind |-> "inf", val |-> 0]
Num(v) == [kind |-> "num", val |-> v]
NoCall == [kind |-> "none", val |-> 0]

abs(x) == IF x < 0 THEN -x ELSE x

\* the gate with the wrist's lower bound made open
out_of_bounds_open(self, hand_shape) ==
    \/ self.wrist_rotation <= -hand_shape.wrist_inwards_bound
    \/ self.wrist_rotation > hand_shape.wrist_outwards_bound
    \/ self.thumb_splay < -hand_shape.thumb_down_splay_bound
    \/ self.thumb_splay > hand_shape.thumb_up_splay_bound
    \/ self.index_splay < -hand_shape.index_max_splay
    \/ self.index_splay > 0
    \/ self.middle_splay < -hand_shape.middle_max_splay
    \/ self.middle_splay > 0
    \/ self.ring_splay < -hand_shape.ring_max_splay
    \/ self.ring_splay > 0
    \/ self.pinky_splay < -hand_shape.pinky_max_splay
    \/ self.pinky_splay > 0
    \/ self.thumb_extension < hand_shape.thumb_max_contraction
    \/ self.thumb_extension > 100
    \/ self.index_extension < hand_shape.index_max_contraction
    \/ self.index_extension > 100
    \/ self.middle_extension < hand_shape.middle_max_contraction
    \/ self.middle_extension > 100
    \/ self.ring_extension < hand_shape.ring_max_contraction
    \/ self.ring_extension > 100
    \/ self.pinky_extension < hand_shape.pinky_max_contraction
    \/ self.pinky_extension > 100

\* the condition of the first if of calculate_cost
out_of_bounds(self, hand_shape) ==
    \/ self.wrist_rotation < -hand_shape.wrist_inwards_bound
    \/ self.wrist_rotation > hand_shape.wrist_outwards_bound
    \/ self.thumb_splay < -hand_shape.thumb_down_splay_bound
    \/ self.thumb_splay > hand_shape.thumb_up_splay_bound
    \/ self.index_splay < -hand_shape.index_max_splay
    \/ self.index_splay > 0
    \/ self.middle_splay < -hand_shape.middle_max_splay
    \/ self.middle_splay > 0
    \/ self.ring_splay < -hand_shape.ring_max_splay
    \/ self.ring_splay > 0
    \/ self.pinky_splay < -hand_shape.pinky_max_splay
    \/ self.pinky_splay > 0
    \/ self.thumb_extension < hand_shape.thumb_max_contraction
    \/ self.thumb_extension > 100
    \/ self.index_extension < hand_shape.index_max_contraction
    \/ self.index_extension > 100
    \/ self.middle_extension < hand_shape.middle_max_contraction
    \/ self.middle_extension > 100
    \/ self.ring_extension < hand_shape.ring_max_contraction
    \/ self.ring_extension > 100
    \/ self.pinky_extension < hand_shape.pinky_max_contraction
    \/ self.pinky_extension > 100

\* the wrist term with the outwards difficulty on both sides of rest
wrist_cost_onesided(self, hand_shape) ==
    abs(self.wrist_rotation - hand_shape.wrist_rest_position)
        * hand_shape.wrist_outwards_difficulty

\* "# wrist rotation": the first term added to total_cost
wrist_cost(self, hand_shape) ==
    LET deviation == abs(self.wrist_rotation - hand_shape.wrist_rest_position)
    IN  IF self.wrist_rotation < hand_shape.wrist_rest_position
        THEN deviation * hand_shape.wrist_inwards_difficulty
        ELSE deviation * hand_shape.wrist_outwards_difficulty

\* the accumulation of total_cost after the gate, statement by statement
deviation_cost(self, hand_shape) ==
    LET c0 == 0
        c1 == c0 + wrist_cost(self, hand_shape)
        c2 == c1 + abs(self.thumb_splay - hand_shape.thumb_rest_position)
                     * hand_shape.thumb_splay_cost
        c3 == c2 + abs(self.thumb_extension - hand_shape.thumb_default_contraction)
                     * hand_shape.thumb_contraction_cost
        c4 == c3 + abs(self.index_splay - hand_shape.index_max_splay)
                     * hand_shape.index_splay_cost
        c5 == c4 + abs(self.index_extension - hand_shape.index_default_contraction)
                     * hand_shape.index_contraction_cost
        c6 == c5 + abs(self.middle_splay - hand_shape.middle_max_splay)
                     * hand_shape.middle_splay_cost
        c7 == c6 + abs(self.middle_extension - hand_shape.middle_default_contraction)
                     * hand_shape.middle_contraction_cost
        c8 == c7 + abs(self.ring_splay - hand_shape.ring_max_splay)
                     * hand_shape.ring_splay_cost
        c9 == c8 + abs(self.ring_extension - hand_shape.ring_default_contraction)
                     * hand_shape.ring_contraction_cost
        c10 == c9 + abs(self.pinky_splay - hand_shape.pinky_max_splay)
                     * hand_shape.pinky_splay_cost
        c11 == c10 + abs(self.pinky_extension - hand_shape.pinky_default_contraction)
                     * hand_shape.pinky_contraction_cost
    IN  c11

\* HandPosition.calculate_cost(self, hand_shape)
calculate_cost(self, hand_shape) ==
    IF out_of_bounds(self, hand_shape)
    THEN Inf
    ELSE Num(deviation_cost(self, hand_shape))

----------------------------------------------------------------------------
(* linalg.py: Vec2 is <<x, y>>; an angle in radians is a number of quarter
   turns q, standing for q*pi/2, at which math.cos and math.sin are exact *)

None == 0

identity == << <<1, 0, 0>>, <<0, 1, 0>>, <<0, 0, 1>> >>

math_cos(q) == CASE q % 4 = 0 -> 1 [] q % 4 = 1 -> 0 [] q % 4 = 2 -> -1 [] OTHER -> 0

math_sin(q) == CASE q % 4 = 0 -> 0 [] q % 4 = 1 -> 1 [] q % 4 = 2 -> 0 [] OTHER -> -1

\* numpy's product of two 3x3 arrays
np_matmul(A, B) ==
    [ i \in 1..3 |-> [ j \in 1..3 |->
        A[i][1] * B[1][j] + A[i][2] * B[2][j] + A[i][3] * B[3][j] ] ]

\* Transform2dHomogeneous.new_translation_matrix
new_translation_matrix(translation) ==
    [matrix |-> << <<1, 0, translation[1]>>, <<0, 1, translation[2]>>, <<0, 0, 1>> >>]

\* Transform2dHomogeneous.new_rotation_matrix
new_rotation_matrix(rotation_rad) ==
    [matrix |-> << <<math_cos(rotation_rad), -math_sin(rotation_rad), 0>>,
                   <<math_sin(rotation_rad), math_cos(rotation_rad), 0>>,
                   <<0, 0, 1>> >>]

\* the value of an expression: a transform, or the exception it raised
Returned(t) == [exc |-> "none", matrix |-> t.matrix]
Raised(e) == [exc |-> e, matrix |-> identity]

\* a @ b on two Transform2dHomogeneous objects.  The class defines neither
\* __matmul__ nor __rmatmul__, so Python raises TypeError (unsupported
\* operand type(s) for @).
T2D_matmul(a, b) == Raised("TypeError(@)")

----------------------------------------------------------------------------
(* armature.py: Bone *)

\* Bone.__init__ with the parent argument stored
Bone__init__keeps_parent(name, pos_offset, length, rotation_rad, parent) ==
    [ _name |-> name, _pos_offset |-> pos_offset, _length |-> length,
      _rotation_rad |-> rotation_rad, parent |-> parent ]

\* Bone.__init__: the last statement is self.parent = None, whatever the
\* parent argument is
Bone__init__(name, pos_offset, length, rotation_rad, parent) ==
    [ _name |-> name, _pos_offset |-> pos_offset, _length |-> length,
      _rotation_rad |-> rotation_rad, parent |-> None ]

\* Bone.get_transform_local, for the bone at index b of heap h
get_transform_local(h, b) ==
    T2D_matmul(new_translation_matrix(h[b]._pos_offset),
               new_rotation_matrix(h[b]._rotation_rad))

\* Bone.get_transform_world: the left operand of @ is evaluated first, and
\* an exception in either operand ends the call
RECURSIVE get_transform_world(_, _)
get_transform_world(h, b) ==
    IF h[b].parent = None
    THEN get_transform_local(h, b)
    ELSE LET left == get_transform_world(h, h[b].parent)
             right == get_transform_local(h, b)
         IN  IF left.exc # "none" THEN left
             ELSE IF right.exc # "none" THEN right
             ELSE T2D_matmul(left, right)

----------------------------------------------------------------------------
(* armature.py: Armature.  The dict _bones is the sequence of its items
   [key, value] in insertion order.  An exception is named by its type and
   by what raised it: ValueError(duplicate) and KeyError(parent) are the two
   raise statements of add_bone, KeyError(attribute) is the failed dict
   lookup of __getattribute__. *)

Keys(d) == { d[i].key : i \in DOMAIN d }

DictGet(d, k) == d[CHOOSE i \in DOMAIN d : d[i].key = k].value

\* d[k] = v: a new key is appended, an existing key keeps its place
DictSet(d, k, v) ==
    IF k \in Keys(d)
    THEN [ i \in DOMAIN d |-> IF d[i].key = k THEN [key |-> k, value |-> v] ELSE d[i] ]
    ELSE Append(d, [key |-> k, value |-> v])

\* Armature.__getattribute__(self, name) for a name that does not start
\* with "_": self._bones[name], a KeyError when the name is no key.  Any
\* such name is looked up in the dict, the class's own methods included.
Armature__getattribute__(d, name) ==
    IF name \in Keys(d)
    THEN [exc |-> "none", value |-> DictGet(d, name)]
    ELSE [exc |-> "KeyError(attribute)", value |-> None]

\* the body of Armature.add_bone(self, bone); self._bones inside it starts
\* with "_" and is the real attribute
add_bone(d, h, bone) ==
    IF h[bone]._name \in Keys(d)
    THEN [exc |-> "ValueError(duplicate)", bones |-> d]
    ELSE IF h[bone].parent # None /\ h[h[bone].parent]._name \notin Keys(d)
    THEN [exc |-> "KeyError(parent)", bones |-> d]
    ELSE [exc |-> "none", bones |-> DictSet(d, h[bone]._name, bone)]

\* arm.add_bone(bone): the attribute add_bone is first fetched through
\* __getattribute__.  When it is no key the fetch raises KeyError; when a
\* bone is stored under "add_bone" the fetch returns that Bone, and calling
\* a Bone raises TypeError.  The body of add_bone does not run.
bound_add_bone(d, h, bone) ==
    LET attr == Armature__getattribute__(d, "add_bone")
    IN  IF attr.exc # "none"
        THEN [exc |-> attr.exc, bones |-> d]
        ELSE [exc |-> "TypeError(not callable)", bones |-> d]

\* the for loop of Armature.__init__ over the bones not yet added
RECURSIVE add_all(_, _, _)
add_all(d, h, rest) ==
    IF rest = <<>>
    THEN [exc |-> "none", bones |-> d]
    ELSE LET r == bound_add_bone(d, h, Head(rest))
         IN  IF r.exc # "none" THEN r ELSE add_all(r.bones, h, Tail(rest))

\* Armature.__init__(self, bones): arg.none is TRUE for bones=None
Armature__init__(h, arg) ==
    IF arg.none
    THEN [exc |-> "none", bones |-> <<>>]
    ELSE add_all(<<>>, h, arg.items)

----------------------------------------------------------------------------
(* armature.py: get_worldspace_positions *)

\* transform.multiply_point(point).  Transform2dHomogeneous defines no
\* multiply_point, so the attribute fetch raises AttributeError.
T2D_multiply_point(t, point) ==
    [exc |-> "AttributeError(multiply_point)", point |-> <<0, 0>>]

\* Bone.get_worldspace_positions: the transform is computed first, then the
\* two points, left to right; the first exception ends the call
Bone_get_worldspace_positions(h, b) ==
    LET transform == get_transform_world(h, b)
    IN  IF transform.exc # "none"
        THEN [exc |-> transform.exc, value |-> <<>>]
        ELSE LET start == T2D_multiply_point(transform, <<0, 0>>)
                 end == T2D_multiply_point(transform, <<h[b]._length, 0>>)
             IN  IF start.exc # "none" THEN [exc |-> start.exc, value |-> <<>>]
                 ELSE IF end.exc # "none" THEN [exc |-> end.exc, value |-> <<>>]
                 ELSE [exc |-> "none", value |-> <<start.point, end.point>>]

\* the dict comprehension of Armature.get_worldspace_positions over the
\* items of d from index i on, in insertion order
RECURSIVE positions_from(_, _, _)
positions_from(d, h, i) ==
    IF i > Len(d)
    THEN [exc |-> "none", result |-> <<>>]
    ELSE LET one == Bone_get_worldspace_positions(h, d[i].value)
         IN  IF one.exc # "none"
             THEN [exc |-> one.exc, result |-> <<>>]
             ELSE LET rest == positions_from(d, h, i + 1)
                  IN  IF rest.exc # "none"
                      THEN rest
                      ELSE [exc |-> "none",
                            result |-> <<[key |-> d[i].key, value |-> one.value]>>
                                       \o rest.result]

\* the body of Armature.get_worldspace_positions(self)
Armature_get_worldspace_positions(d, h) == positions_from(d, h, 1)

\* arm.get_worldspace_positions(): the attribute is fetched through
\* __getattribute__ like any name without a leading underscore; the body of
\* the method does not run
bound_get_worldspace_positions(d, h) ==
    LET attr == Armature__getattribute__(d, "get_worldspace_positions")
    IN  IF attr.exc # "none"
        THEN [exc |-> attr.exc, result |-> <<>>]
        ELSE [exc |-> "TypeError(not callable)", result |-> <<>>]

----------------------------------------------------------------------------
(* hand_movement.py: Hands *)

\* Angles of a pose are hundredths of a degree; the trigonometry is exact
\* at the multiples of 90 degrees, which are the angles modelled.
\* Coordinates of a tip are in units of 1/10000 mm: a root position
\* (1/100 mm) is scaled by 100, an offset is length * extension.

\* math.radians(deg), as a number of quarter turns
math_radians(deg) == deg \div 9000

Digits == <<"thumb", "index", "middle", "ring", "pinky">>

root_position(hand_shape, digit) ==
    CASE digit = "thumb" -> hand_shape.thumb_root_position
      [] digit = "index" -> hand_shape.index_root_position
      [] digit = "middle" -> hand_shape.middle_root_position
      [] digit = "ring" -> hand_shape.ring_root_position
      [] OTHER -> hand_shape.pinky_root_position

digit_length(hand_shape, digit) ==
    CASE digit = "thumb" -> hand_shape.thumb_length
      [] digit = "index" -> hand_shape.index_length
      [] digit = "middle" -> hand_shape.middle_length
      [] digit = "ring" -> hand_shape.ring_length
      [] OTHER -> hand_shape.pinky_length

splay(pose, digit) ==
    CASE digit = "thumb" -> pose.thumb_splay
      [] digit = "index" -> pose.index_splay
      [] digit = "middle" -> pose.middle_splay
      [] digit = "ring" -> pose.ring_splay
      [] OTHER -> pose.pinky_splay

extension(pose, digit) ==
    CASE digit = "thumb" -> pose.thumb_extension
      [] digit = "index" -> pose.index_extension
      [] digit = "middle" -> pose.middle_extension
      [] digit = "ring" -> pose.ring_extension
      [] OTHER -> pose.pinky_extension

\* Hands(shape): both hands share the one shape
Hands__init__(shape) == [left_shape |-> shape, right_shape |-> shape]

\* the position of a tip before the wrist rotation: root + offset
tip_before_rotation(hand_shape, pose, digit) ==
    LET root == root_position(hand_shape, digit)
        tip_offset_x == math_sin(math_radians(splay(pose, digit)))
                            * digit_length(hand_shape, digit) * extension(pose, digit)
        tip_offset_y == math_cos(math_radians(splay(pose, digit)))
                            * digit_length(hand_shape, digit) * extension(pose, digit)
    IN  << root[1] * 100 + tip_offset_x, root[2] * 100 + tip_offset_y >>

mirror_x_never(x, right_hand) == x

\* x if right_hand else -x
mirror_x(x, right_hand) == IF right_hand THEN x ELSE -x

\* the body of the rotation loop for one position: x is reassigned first,
\* and the assignment to y reads the reassigned x
rotate_and_mirror(pos, wrist_rotation_amount, right_hand) ==
    LET c == math_cos(math_radians(wrist_rotation_amount))
        sn == math_sin(math_radians(wrist_rotation_amount))
        x1 == pos[1] * c - pos[2] * sn
        y1 == x1 * sn + pos[2] * c
    IN  << mirror_x(x1, right_hand), y1 >>

\* self.get_fingertip_coords(right_hand, pose)
get_fingertip_coords(self, right_hand, pose) ==
    LET hand_shape == IF right_hand THEN self.right_shape ELSE self.left_shape
    IN  [ i \in 1..5 |->
            rotate_and_mirror(tip_before_rotation(hand_shape, pose, Digits[i]),
                              pose.wrist_rotation, right_hand) ]

----------------------------------------------------------------------------
(* keyboard.py: Key and Keyboard.  Lengths are whole millimetres.  A Key
   object is its index in KeyObjects; Key defines __hash__ and no __eq__,
   so two Key objects are equal only when they are the same object. *)

Key__init__(letter, x, y, width, height) ==
    [letter |-> letter, x |-> x, y |-> y, width |-> width, height |-> height,
     pressed |-> FALSE]

\* the Key objects the lists are made of: four keys "a" in a row, a key "b"
\* touching the corners of the first two, a key "b" overlapping the fourth
KeyObjects ==
    << Key__init__("a", 0, 0, 10, 10),
       Key__init__("a", 20, 0, 10, 10),
       Key__init__("a", 40, 0, 10, 10),
       Key__init__("a", 60, 0, 10, 10),
       Key__init__("b", 10, 10, 10, 10),
       Key__init__("b", 55, 5, 10, 10) >>

\* self.check_position(x, y)
check_position(self, x, y) ==
    IF \/ x < KeyObjects[self].x
       \/ x > KeyObjects[self].x + KeyObjects[self].width
       \/ y < KeyObjects[self].y
       \/ y > KeyObjects[self].y + KeyObjects[self].height
    THEN FALSE
    ELSE TRUE

intersecting_open(self, other) ==
    IF \/ KeyObjects[self].x + KeyObjects[self].width <= KeyObjects[other].x
       \/ KeyObjects[self].x >= KeyObjects[other].x + KeyObjects[other].width
       \/ KeyObjects[self].y + KeyObjects[self].height <= KeyObjects[other].y
       \/ KeyObjects[self].y >= KeyObjects[other].y + KeyObjects[other].height
    THEN FALSE
    ELSE TRUE

\* self.intersecting(other)
intersecting(self, other) ==
    IF \/ KeyObjects[self].x + KeyObjects[self].width < KeyObjects[other].x
       \/ KeyObjects[self].x > KeyObjects[other].x + KeyObjects[other].width
       \/ KeyObjects[self].y + KeyObjects[self].height < KeyObjects[other].y
       \/ KeyObjects[self].y > KeyObjects[other].y + KeyObjects[other].height
    THEN FALSE
    ELSE TRUE

\* set(keys): the distinct objects of the list
set(keys) == { keys[i] : i \in DOMAIN keys }

\* the orders in which a set can give up its elements to pop()
PopOrders(S) ==
    { o \in [1..Cardinality(S) -> S] : \A i, j \in DOMAIN o : o[i] = o[j] => i = j }

pop_loop_raises_adjacent(order) ==
    \E i \in DOMAIN order : \E j \in {i + 1} \cap DOMAIN order :
        intersecting(order[i], order[j])

\* the while loop of Keyboard.__init__ when pop() yields the keys in the
\* given order: each popped key is compared with every key still in the set
pop_loop_raises(order) ==
    \E i \in DOMAIN order : \E j \in (i + 1)..Len(order) :
        intersecting(order[i], order[j])

key_map_put_two(km, key) ==
    LET letter == KeyObjects[key].letter
    IN  IF letter \notin Keys(km)
        THEN [exc |-> "none", key_map |-> DictSet(km, letter, <<key, None, None>>)]
        ELSE IF DictGet(km, letter)[2] = None
        THEN [exc |-> "none",
              key_map |-> DictSet(km, letter, <<DictGet(km, letter)[1], key, None>>)]
        ELSE [exc |-> "ValueError(letters)", key_map |-> km]

\* one iteration of the loop that builds key_map
key_map_put(km, key) ==
    LET letter == KeyObjects[key].letter
    IN  IF letter \notin Keys(km)
        THEN [exc |-> "none", key_map |-> DictSet(km, letter, <<key, None, None>>)]
        ELSE IF DictGet(km, letter)[2] = None
        THEN [exc |-> "none",
              key_map |-> DictSet(km, letter, <<DictGet(km, letter)[1], key, None>>)]
        ELSE IF DictGet(km, letter)[3] = None
        THEN [exc |-> "none",
              key_map |-> DictSet(km, letter, <<DictGet(km, letter)[1],
                                                DictGet(km, letter)[2], key>>)]
        ELSE [exc |-> "ValueError(letters)", key_map |-> km]

\* the loop that builds key_map, from the i-th key of the list on
RECURSIVE build_key_map(_, _, _)
build_key_map(keys, i, km) ==
    IF i > Len(keys)
    THEN [exc |-> "none", key_map |-> km]
    ELSE LET r == key_map_put(km, keys[i])
         IN  IF r.exc # "none" THEN r ELSE build_key_map(keys, i + 1, r.key_map)

\* Keyboard(keys), the working set popping in the given order
Keyboard__init__(keys, order) ==
    IF pop_loop_raises(order)
    THEN [exc |-> "ValueError(intersecting)", key_map |-> <<>>]
    ELSE build_key_map(keys, 1, <<>>)

\* self.key_at(x, y): the first key of the list the point is on
key_at(keys, x, y) ==
    IF \E i \in DOMAIN keys : check_position(keys[i], x, y)
    THEN keys[CHOOSE i \in DOMAIN keys :
                 /\ check_position(keys[i], x, y)
                 /\ \A j \in 1..(i - 1) : ~check_position(keys[j], x, y)]
    ELSE None

\* self.find_letter(letter): key_map.get(letter, (None, None, None))
find_letter(km, letter) ==
    IF letter \in Keys(km) THEN DictGet(km, letter) ELSE <<None, None, None>>

----------------------------------------------------------------------------
(* Inputs *)

\* the default fields with each default contraction lowered to the digit's
\* max contraction: the integrity assertion passes on these values
ValidShape ==
    [DefaultShape EXCEPT
        !.index_default_contraction = DefaultShape.index_max_contraction,
        !.middle_default_contraction = DefaultShape.middle_max_contraction,
        !.ring_default_contraction = DefaultShape.ring_max_contraction,
        !.pinky_default_contraction = DefaultShape.pinky_max_contraction,
        !.thumb_default_contraction = DefaultShape.thumb_max_contraction]

\* values tried for one scalar field of a shape: -100.0, 0 and 1.0
ShapeVals == {-10000, 0, 100}

\* the shapes handed to calculate_cost: DefaultShape, ValidShape, and
\* ValidShape with one scalar field changed
ShapeInputs ==
    {DefaultShape, ValidShape}
    \cup { [ValidShape EXCEPT ![f] = v] : f \in ShapeScalarFields, v \in ShapeVals }

\* the closed feasibility interval of a pose field under DefaultShape
PoseLo(f) ==
    CASE f = "wrist_rotation" -> -DefaultShape.wrist_inwards_bound
      [] f = "thumb_splay" -> -DefaultShape.thumb_down_splay_bound
      [] f = "index_splay" -> -DefaultShape.index_max_splay
      [] f = "middle_splay" -> -DefaultShape.middle_max_splay
      [] f = "ring_splay" -> -DefaultShape.ring_max_splay
      [] f = "pinky_splay" -> -DefaultShape.pinky_max_splay
      [] f = "thumb_extension" -> DefaultShape.thumb_max_contraction
      [] f = "index_extension" -> DefaultShape.index_max_contraction
      [] f = "middle_extension" -> DefaultShape.middle_max_contraction
      [] f = "ring_extension" -> DefaultShape.ring_max_contraction
      [] f = "pinky_extension" -> DefaultShape.pinky_max_contraction

PoseHi(f) ==
    CASE f = "wrist_rotation" -> DefaultShape.wrist_outwards_bound
      [] f = "thumb_splay" -> DefaultShape.thumb_up_splay_bound
      [] f \in {"index_splay", "middle_splay", "ring_splay", "pinky_splay"} -> 0
      [] OTHER -> 100

\* values tried for a pose field: on each bound and up to MaxDev outside it
PoseVals(f) ==
    {PoseLo(f), PoseHi(f)}
    \cup { PoseLo(f) - d : d \in 1..MaxDev }
    \cup { PoseHi(f) + d : d \in 1..MaxDev }

PosePairs == UNION { { <<f, v>> : v \in PoseVals(f) } : f \in PositionFields }

\* the fields _assert_integrity reads
ContractionFields ==
    { "index_max_contraction", "index_default_contraction",
      "middle_max_contraction", "middle_default_contraction",
      "ring_max_contraction", "ring_default_contraction",
      "pinky_max_contraction", "pinky_default_contraction",
      "thumb_max_contraction", "thumb_default_contraction" }

\* values tried for a contraction keyword argument: 0.4 and 0.9
ShapeKwVals == {40, 90}

ShapePairs == { <<f, v>> : f \in ContractionFields, v \in ShapeKwVals }

\* every keyword-argument set of at most n pairs
RECURSIVE KwSets(_, _)
KwSets(pairs, n) ==
    IF n = 0
    THEN {{}}
    ELSE LET prev == KwSets(pairs, n - 1)
         IN  prev \cup UNION { { kw \cup {kv} : kv \in { q \in pairs : q[1] \notin KwFields(kw) } } :
                                kw \in prev }

\* the pose in which every field has the rest value of the shape
RestPosition(s) ==
    [ wrist_rotation |-> s.wrist_rest_position,
      thumb_splay |-> s.thumb_rest_position,
      thumb_extension |-> s.thumb_default_contraction,
      index_splay |-> s.index_max_splay,
      index_extension |-> s.index_default_contraction,
      middle_splay |-> s.middle_max_splay,
      middle_extension |-> s.middle_default_contraction,
      ring_splay |-> s.ring_max_splay,
      ring_extension |-> s.ring_default_contraction,
      pinky_splay |-> s.pinky_max_splay,
      pinky_extension |-> s.pinky_default_contraction ]

\* the poses costed: HandPosition(**kwargs) for each small set of keyword
\* arguments, and HandPosition(...) given the eleven rest values of a shape
PositionInputs ==
    { DataclassInit(DefaultPosition, kwargs) : kwargs \in KwSets(PosePairs, MaxPoseKw) }
    \cup { RestPosition(s) : s \in ShapeInputs }

----------------------------------------------------------------------------
(* State machine *)

\* no HandShape(...) call made yet
InitShape ==
    /\ shape_kwargs = {}
    /\ shape_exc = "none"
    /\ shapes = {}

\* Armature() constructed, no Bone constructed yet
InitArm ==
    /\ heap = <<>>
    /\ ctor_parent = <<>>
    /\ _bones = <<>>
    /\ last_call = [op |-> "none", bone |-> None, exc |-> "none", before |-> <<>>]
    /\ ret_world = [bone |-> None, result |-> Raised("none")]

\* get_worldspace_positions not called yet
InitPos ==
    ret_positions = [op |-> "none", exc |-> "none", result |-> <<>>, bones |-> <<>>]

\* Hands(shape) constructed on the default field values,
\* get_fingertip_coords not called yet
InitTips ==
    /\ hands = Hands__init__(1)
    /\ tips = [called |-> FALSE, right_hand |-> TRUE, pose |-> DefaultPosition,
               coords |-> <<>>]

\* no Keyboard(...) call made
InitKbIdle ==
    /\ kb_keys = <<>>
    /\ pop_order = <<>>
    /\ kb_exc = "idle"
    /\ key_map = <<>>
    /\ kb_ret = [op |-> "none", arg |-> <<>>, result |-> <<>>]

\* one HandPosition constructed, calculate_cost not called yet
InitCost ==
    /\ position \in PositionInputs
    /\ shape_arg = DefaultShape
    /\ total_cost = NoCall
    /\ InitShape
    /\ InitArm
    /\ InitPos
    /\ InitTips
    /\ InitKbIdle

Init ==
    /\ position = DefaultPosition
    /\ shape_arg = DefaultShape
    /\ total_cost = NoCall
    /\ InitShape
    /\ InitArm
    /\ InitPos
    /\ InitTips
    /\ InitKbIdle

\* position.calculate_cost(s)
CalculateCost(s) ==
    /\ shape_arg' = s
    /\ total_cost' = calculate_cost(position, s)
    /\ UNCHANGED <<position, shapeVars, armVars, posVars, tipVars, kbVars>>

\* HandShape(**kwargs)
NewHandShape(kwargs) ==
    LET r == HandShape__init__(kwargs)
    IN  /\ shape_kwargs' = kwargs
        /\ shape_exc' = r.exc
        /\ shapes' = shapes \cup r.made
        /\ UNCHANGED <<handVars, armVars, posVars, tipVars, kbVars>>

NextCost ==
    \E s \in ShapeInputs : CalculateCost(s)

NextShape ==
    \E kwargs \in KwSets(ShapePairs, MaxShapeKw) : NewHandShape(kwargs)

SpecCost == InitCost /\ [][NextCost]_vars

SpecShape == Init /\ [][NextShape]_vars

----------------------------------------------------------------------------
(* State machine of the bone hierarchy *)

BoneNames == {"a", "p", "add_bone"}

Offsets == {<<0, 0>>, <<10, 0>>}

Lengths == {5}

Rotations == {0, 1}

\* Bone(name, pos_offset, length, rotation_rad, parent): parent is None or a
\* Bone constructed before
NewBone(name, pos_offset, length, rotation_rad, parent) ==
    /\ Len(heap) < MaxBones
    /\ heap' = Append(heap, Bone__init__(name, pos_offset, length, rotation_rad, parent))
    /\ ctor_parent' = Append(ctor_parent, parent)
    /\ UNCHANGED <<_bones, last_call, ret_world, handVars, shapeVars,
                     posVars, tipVars, kbVars>>

\* arm.add_bone(bone)
AddBoneBound(bone) ==
    LET r == bound_add_bone(_bones, heap, bone)
    IN  /\ _bones' = r.bones
        /\ last_call' = [op |-> "arm.add_bone", bone |-> bone, exc |-> r.exc,
                         before |-> _bones]
        /\ UNCHANGED <<heap, ctor_parent, ret_world, handVars, shapeVars,
                     posVars, tipVars, kbVars>>

\* Armature.add_bone(arm, bone): the function fetched from the class, which
\* __getattribute__ of the instance does not intercept
AddBoneUnbound(bone) ==
    LET r == add_bone(_bones, heap, bone)
    IN  /\ _bones' = r.bones
        /\ last_call' = [op |-> "Armature.add_bone", bone |-> bone, exc |-> r.exc,
                         before |-> _bones]
        /\ UNCHANGED <<heap, ctor_parent, ret_world, handVars, shapeVars,
                     posVars, tipVars, kbVars>>

\* arm = Armature(bones): when the constructor raises there is no new
\* armature and arm stays the one it was
NewArmature(arg) ==
    LET r == Armature__init__(heap, arg)
    IN  /\ _bones' = IF r.exc = "none" THEN r.bones ELSE _bones
        /\ last_call' = [op |-> "Armature", bone |-> None, exc |-> r.exc,
                         before |-> <<>>]
        /\ UNCHANGED <<heap, ctor_parent, ret_world, handVars, shapeVars,
                     posVars, tipVars, kbVars>>

\* bone.get_transform_world()
GetTransformWorld(bone) ==
    /\ ret_world' = [bone |-> bone, result |-> get_transform_world(heap, bone)]
    /\ UNCHANGED <<heap, ctor_parent, _bones, last_call, handVars, shapeVars,
                     posVars, tipVars, kbVars>>

Bones == 1..Len(heap)

\* every sequence of at most n of the bones b
RECURSIVE BoneLists(_, _)
BoneLists(b, n) ==
    IF n = 0
    THEN {<<>>}
    ELSE LET prev == BoneLists(b, n - 1)
         IN  prev \cup { Append(l, x) : l \in prev, x \in b }

ArmatureArgs ==
    {[none |-> TRUE, items |-> <<>>]}
    \cup { [none |-> FALSE, items |-> l] : l \in BoneLists(Bones, MaxList) }

NextArm ==
    \/ \E name \in BoneNames, parent \in {None} \cup Bones :
          NewBone(name, <<0, 0>>, 5, 0, parent)
    \/ \E bone \in Bones : AddBoneBound(bone)
    \/ \E bone \in Bones : AddBoneUnbound(bone)
    \/ \E arg \in ArmatureArgs : NewArmature(arg)

NextBone ==
    \/ \E pos_offset \in Offsets, length \in Lengths, rotation_rad \in Rotations,
          parent \in {None} \cup Bones :
          NewBone("a", pos_offset, length, rotation_rad, parent)
    \/ \E bone \in Bones : GetTransformWorld(bone)

SpecArm == Init /\ [][NextArm]_vars

SpecBone == Init /\ [][NextBone]_vars

----------------------------------------------------------------------------
(* State machine of Armature.get_worldspace_positions *)

PosNames == {"a", "get_worldspace_positions"}

\* arm.get_worldspace_positions()
GetPositionsBound ==
    LET r == bound_get_worldspace_positions(_bones, heap)
    IN  /\ ret_positions' = [op |-> "arm.get_worldspace_positions", exc |-> r.exc,
                             result |-> r.result, bones |-> _bones]
        /\ UNCHANGED <<armVars, handVars, shapeVars, tipVars, kbVars>>

\* Armature.get_worldspace_positions(arm)
GetPositionsUnbound ==
    LET r == Armature_get_worldspace_positions(_bones, heap)
    IN  /\ ret_positions' = [op |-> "Armature.get_worldspace_positions", exc |-> r.exc,
                             result |-> r.result, bones |-> _bones]
        /\ UNCHANGED <<armVars, handVars, shapeVars, tipVars, kbVars>>

NextPos ==
    \/ \E name \in PosNames, parent \in {None} \cup Bones :
          NewBone(name, <<0, 0>>, 5, 0, parent)
    \/ \E bone \in Bones : AddBoneUnbound(bone)
    \/ GetPositionsBound
    \/ GetPositionsUnbound

SpecPos == Init /\ [][NextPos]_vars

----------------------------------------------------------------------------
(* State machine of Hands.get_fingertip_coords *)

\* the HandShape objects handed to Hands(): the default field values, a
\* shape passing the integrity check, and shapes with one root position or
\* length changed.  A Hands instance holds references to its shape: the
\* state keeps the index of the object in ShapeObjects.
ShapeObjects ==
    << DefaultShape, ValidShape,
       [ValidShape EXCEPT !.thumb_root_position = <<-4000, 0>>],
       [ValidShape EXCEPT !.pinky_length = 100] >>

\* the Hands instance with its references followed
HandsObject ==
    [left_shape |-> ShapeObjects[hands.left_shape],
     right_shape |-> ShapeObjects[hands.right_shape]]

\* keyword arguments of a pose: angles at quarter turns, extensions 0.5 and 0
TipPairs ==
    UNION { { <<f, v>> : v \in {-9000, 9000, 18000} } :
               f \in {"wrist_rotation", "thumb_splay", "middle_splay", "pinky_splay"} }
    \cup { <<f, v>> : f \in {"thumb_extension", "ring_extension"}, v \in {0, 50} }

TipPoses == { DataclassInit(DefaultPosition, kw) : kw \in KwSets(TipPairs, MaxPoseKw) }

InitHands ==
    /\ position = DefaultPosition
    /\ shape_arg = DefaultShape
    /\ total_cost = NoCall
    /\ InitShape
    /\ InitArm
    /\ InitPos
    /\ InitKbIdle
    /\ hands \in { Hands__init__(shape) : shape \in DOMAIN ShapeObjects }
    /\ tips = [called |-> FALSE, right_hand |-> TRUE, pose |-> DefaultPosition,
               coords |-> <<>>]

\* hands.get_fingertip_coords(right_hand, pose)
GetFingertipCoords(right_hand, pose) ==
    /\ tips' = [called |-> TRUE, right_hand |-> right_hand, pose |-> pose,
                coords |-> get_fingertip_coords(HandsObject, right_hand, pose)]
    /\ UNCHANGED <<hands, handVars, shapeVars, armVars, posVars, kbVars>>

NextTips ==
    \E right_hand \in BOOLEAN, pose \in TipPoses : GetFingertipCoords(right_hand, pose)

SpecTips == InitHands /\ [][NextTips]_vars

----------------------------------------------------------------------------
(* State machine of Keyboard: the list is chosen first, Keyboard(keys) runs
   once, key_at and find_letter are called on the constructed object *)

RECURSIVE KeyLists(_)
KeyLists(n) ==
    IF n = 0
    THEN {<<>>}
    ELSE LET prev == KeyLists(n - 1)
         IN  prev \cup { Append(l, k) : l \in { q \in prev : Len(q) = n - 1 },
                                        k \in DOMAIN KeyObjects }

Points == { <<5, 5>>, <<10, 10>>, <<20, 10>>, <<30, 5>>, <<60, 8>> }

Letters == {"a", "b", "c"}

InitKb ==
    /\ position = DefaultPosition
    /\ shape_arg = DefaultShape
    /\ total_cost = NoCall
    /\ InitShape
    /\ InitArm
    /\ InitPos
    /\ InitTips
    /\ kb_keys \in KeyLists(MaxKeys)
    /\ pop_order = <<>>
    /\ kb_exc = "idle"
    /\ key_map = <<>>
    /\ kb_ret = [op |-> "none", arg |-> <<>>, result |-> <<>>]

\* Keyboard(kb_keys)
NewKeyboard(order) ==
    /\ kb_exc = "idle"
    /\ LET r == Keyboard__init__(kb_keys, order)
       IN  /\ kb_exc' = r.exc
           /\ key_map' = r.key_map
    /\ pop_order' = order
    /\ UNCHANGED <<kb_keys, kb_ret, handVars, shapeVars, armVars, posVars, tipVars>>

\* keyboard.key_at(x, y)
KeyAt(x, y) ==
    /\ kb_exc = "none"
    /\ kb_ret' = [op |-> "key_at", arg |-> <<x, y>>, result |-> key_at(kb_keys, x, y)]
    /\ UNCHANGED <<kb_keys, pop_order, kb_exc, key_map,
                   handVars, shapeVars, armVars, posVars, tipVars>>

\* keyboard.find_letter(letter)
FindLetter(letter) ==
    /\ kb_exc = "none"
    /\ kb_ret' = [op |-> "find_letter", arg |-> letter,
                  result |-> find_letter(key_map, letter)]
    /\ UNCHANGED <<kb_keys, pop_order, kb_exc, key_map,
                   handVars, shapeVars, armVars, posVars, tipVars>>

NextKb ==
    \/ /\ kb_exc = "idle"
       /\ \E order \in PopOrders(set(kb_keys)) : NewKeyboard(order)
    \/ \E p \in Points : KeyAt(p[1], p[2])
    \/ \E letter \in Letters : FindLetter(letter)

SpecKb == InitKb /\ [][NextKb]_vars

----------------------------------------------------------------------------
(* Claims about calculate_cost, checked under SpecCost *)

Called == total_cost.kind # "none"

InClosed(x, lo, hi) == lo <= x /\ x <= hi

\* the eleven range checks of the feasibility gate, all closed
RangeChecksPass(p, s) ==
    /\ InClosed(p.wrist_rotation, -s.wrist_inwards_bound, s.wrist_outwards_bound)
    /\ InClosed(p.thumb_splay, -s.thumb_down_splay_bound, s.thumb_up_splay_bound)
    /\ InClosed(p.index_splay, -s.index_max_splay, 0)
    /\ InClosed(p.middle_splay, -s.middle_max_splay, 0)
    /\ InClosed(p.ring_splay, -s.ring_max_splay, 0)
    /\ InClosed(p.pinky_splay, -s.pinky_max_splay, 0)
    /\ InClosed(p.thumb_extension, s.thumb_max_contraction, 100)
    /\ InClosed(p.index_extension, s.index_max_contraction, 100)
    /\ InClosed(p.middle_extension, s.middle_max_contraction, 100)
    /\ InClosed(p.ring_extension, s.ring_max_contraction, 100)
    /\ InClosed(p.pinky_extension, s.pinky_max_contraction, 100)

Term(value, reference, weight) == abs(value - reference) * weight

\* the sum of the eleven weighted absolute deviations
WeightedDeviationSum(p, s) ==
    Term(p.wrist_rotation, s.wrist_rest_position,
         IF p.wrist_rotation < s.wrist_rest_position
         THEN s.wrist_inwards_difficulty ELSE s.wrist_outwards_difficulty)
    + Term(p.thumb_splay, s.thumb_rest_position, s.thumb_splay_cost)
    + Term(p.thumb_extension, s.thumb_default_contraction, s.thumb_contraction_cost)
    + Term(p.index_splay, s.index_max_splay, s.index_splay_cost)
    + Term(p.index_extension, s.index_default_contraction, s.index_contraction_cost)
    + Term(p.middle_splay, s.middle_max_splay, s.middle_splay_cost)
    + Term(p.middle_extension, s.middle_default_contraction, s.middle_contraction_cost)
    + Term(p.ring_splay, s.ring_max_splay, s.ring_splay_cost)
    + Term(p.ring_extension, s.ring_default_contraction, s.ring_contraction_cost)
    + Term(p.pinky_splay, s.pinky_max_splay, s.pinky_splay_cost)
    + Term(p.pinky_extension, s.pinky_default_contraction, s.pinky_contraction_cost)

CostLeq(a, b) ==
    \/ b.kind = "inf"
    \/ a.kind = "num" /\ b.kind = "num" /\ a.val <= b.val

\* C3: calculate_cost returns 0 for the rest pose of a shape, and no pose
\* has a lower cost than that rest pose.
C3_RestPoseCostsZeroAndIsMinimal ==
    Called =>
        /\ position = RestPosition(shape_arg) => total_cost = Num(0)
        /\ CostLeq(calculate_cost(RestPosition(shape_arg), shape_arg), total_cost)

\* the shape passes the check that HandShape construction runs
PassesConstruction(s) == _assert_integrity(s)

----------------------------------------------------------------------------
(* Claims about HandShape construction, checked under SpecShape *)

Constructed == shape_exc # "none"

\* some digit's default contraction exceeds its max contraction
DefaultAboveMax(s) ==
    \/ s.thumb_default_contraction > s.thumb_max_contraction
    \/ s.index_default_contraction > s.index_max_contraction
    \/ s.middle_default_contraction > s.middle_max_contraction
    \/ s.ring_default_contraction > s.ring_max_contraction
    \/ s.pinky_default_contraction > s.pinky_max_contraction

\* the field values a HandShape(**kwargs) call asks for
RequestedShape(kwargs) == DataclassInit(DefaultShape, kwargs)

C6_DefaultConstructionSucceeds ==
    (Constructed /\ shape_kwargs = {})
        => (shape_exc = "ok" /\ DefaultShape \in shapes)

----------------------------------------------------------------------------
(* Claims about Armature.add_bone, checked under SpecArm *)

AddBoneCalled == last_call.op \in {"arm.add_bone", "Armature.add_bone"}

\* C7: add_bone called with a bone whose name is already a key fails with
\* the duplicate-name ValueError and leaves the name-to-bone mapping as it
\* was.
C7_DuplicateNameRaisesValueError ==
    (AddBoneCalled /\ heap[last_call.bone]._name \in Keys(last_call.before))
        => (last_call.exc = "ValueError(duplicate)" /\ _bones = last_call.before)

\* the bone was constructed with a parent whose name is no key of the dict
ParentGivenAndMissing(bone, d) ==
    /\ ctor_parent[bone] # None
    /\ heap[ctor_parent[bone]]._name \notin Keys(d)

\* C8: add_bone called with a bone that was constructed with a parent whose
\* name is not yet a member fails with the missing-parent KeyError and does
\* not insert the bone.
C8_MissingParentRaisesKeyError ==
    (/\ AddBoneCalled
     /\ heap[last_call.bone]._name \notin Keys(last_call.before)
     /\ ParentGivenAndMissing(last_call.bone, last_call.before))
        => (last_call.exc = "KeyError(parent)" /\ _bones = last_call.before)

\* following parent references from bone b for at most n steps reaches a
\* bone with no parent
RECURSIVE ReachesRoot(_, _)
ReachesRoot(b, n) ==
    \/ heap[b].parent = None
    \/ n > 0 /\ ReachesRoot(heap[b].parent, n - 1)

----------------------------------------------------------------------------
(* Claims about Bone.get_transform_world, checked under SpecBone *)

\* translate(offset) then rotate(rotation), as a matrix
LocalMatrix(b) ==
    np_matmul(new_translation_matrix(heap[b]._pos_offset).matrix,
              new_rotation_matrix(heap[b]._rotation_rad).matrix)

\* the local matrices composed by hand along the parents the bones were
\* constructed with, root first
RECURSIVE ComposedWorldMatrix(_)
ComposedWorldMatrix(b) ==
    IF ctor_parent[b] = None
    THEN LocalMatrix(b)
    ELSE np_matmul(ComposedWorldMatrix(ctor_parent[b]), LocalMatrix(b))

\* C10: for every bone constructed with a parent, get_transform_world(bone)
\* is get_transform_world(parent) composed with get_transform_local(bone),
\* i.e. the product of the local transforms from the root down to the bone.
C10_WorldIsParentWorldThenLocal ==
    (ret_world.bone # None /\ ctor_parent[ret_world.bone] # None)
        => /\ ret_world.result.exc = "none"
           /\ ret_world.result.matrix = ComposedWorldMatrix(ret_world.bone)

----------------------------------------------------------------------------
(* Claims about Armature.get_worldspace_positions, checked under SpecPos *)

\* the matrix M applied to the point p
ApplyPoint(M, p) ==
    << M[1][1] * p[1] + M[1][2] * p[2] + M[1][3],
       M[2][1] * p[1] + M[2][2] * p[2] + M[2][3] >>

\* C11: get_worldspace_positions returns a mapping whose keys are exactly
\* the names of the bones added so far, one (start, end) entry per bone,
\* start and end being the bone's world transform applied to (0,0) and
\* (length,0).
C11_PositionsOfEveryStoredBone ==
    ret_positions.op # "none" =>
        /\ ret_positions.exc = "none"
        /\ Keys(ret_positions.result) = Keys(ret_positions.bones)
        /\ Len(ret_positions.result) = Len(ret_positions.bones)
        /\ \A i \in DOMAIN ret_positions.result :
              LET b == DictGet(ret_positions.bones, ret_positions.result[i].key)
              IN  ret_positions.result[i].value =
                      << ApplyPoint(ComposedWorldMatrix(b), <<0, 0>>),
                         ApplyPoint(ComposedWorldMatrix(b), <<heap[b]._length, 0>>) >>

----------------------------------------------------------------------------
(* Claims about Hands.get_fingertip_coords, checked under SpecTips *)

\* the shape get_fingertip_coords read in the last call
TipShape ==
    ShapeObjects[IF tips.right_hand THEN hands.right_shape ELSE hands.left_shape]

AllSplaysZero(pose) ==
    /\ pose.thumb_splay = 0 /\ pose.index_splay = 0 /\ pose.middle_splay = 0
    /\ pose.ring_splay = 0 /\ pose.pinky_splay = 0

AllExtensionsOne(pose) ==
    /\ pose.thumb_extension = 100 /\ pose.index_extension = 100
    /\ pose.middle_extension = 100 /\ pose.ring_extension = 100
    /\ pose.pinky_extension = 100

ZeroPoseCall ==
    /\ tips.called
    /\ AllSplaysZero(tips.pose)
    /\ AllExtensionsOne(tips.pose)
    /\ tips.pose.wrist_rotation = 0

\* root_position + (0, length) of the i-th digit, in units of 1/10000 mm
RootPlusLength(i) ==
    << root_position(TipShape, Digits[i])[1] * 100,
       (root_position(TipShape, Digits[i])[2] + digit_length(TipShape, Digits[i])) * 100 >>

\* C12: for a pose with all splays 0, all extensions 1 and wrist rotation 0
\* the result is, in the order thumb, index, middle, ring, pinky, exactly
\* root_position + (0, length) for the right hand, and the same points with
\* x negated and y unchanged for the left hand.
C12_ZeroPoseTipsAreRootPlusLength ==
    ZeroPoseCall =>
        /\ DOMAIN tips.coords = 1..5
        /\ \A i \in 1..5 :
              /\ tips.coords[i][2] = RootPlusLength(i)[2]
              /\ tips.coords[i][1] = IF tips.right_hand THEN RootPlusLength(i)[1]
                                     ELSE -RootPlusLength(i)[1]

\* the zero pose was evaluated for the left hand on a shape whose roots are
\* off the axis, so the mirrored points differ from the unmirrored ones
C12_Witness ==
    /\ ZeroPoseCall
    /\ ~tips.right_hand
    /\ \A i \in 1..5 : RootPlusLength(i)[1] # 0

\* the standard rotation of (x, y) about (0,0) by w, both coordinates
\* computed from the original x and y
StandardRotation(pos, w) ==
    LET c == math_cos(math_radians(w))
        sn == math_sin(math_radians(w))
    IN  << pos[1] * c - pos[2] * sn, pos[1] * sn + pos[2] * c >>

\* C13: every returned tip is the pre-rotation tip root + (sin(splay),
\* cos(splay)) * length * extension rotated about (0,0) by wrist_rotation
\* with the standard formula on the original x and y, then x negated for
\* the left hand only.
C13_TipsAreStandardRotationOfPreRotationTips ==
    tips.called =>
        \A i \in 1..5 :
            LET pre == tip_before_rotation(TipShape, tips.pose, Digits[i])
                rot == StandardRotation(pre, tips.pose.wrist_rotation)
            IN  tips.coords[i] = << IF tips.right_hand THEN rot[1] ELSE -rot[1], rot[2] >>

----------------------------------------------------------------------------
(* Claims about Keyboard, checked under SpecKb *)

Min(a, b) == IF a <= b THEN a ELSE b
Max(a, b) == IF a >= b THEN a ELSE b

\* the closed rectangles of two keys overlap or touch: they share a point
RectsMeet(a, b) ==
    /\ Max(KeyObjects[a].x, KeyObjects[b].x)
          <= Min(KeyObjects[a].x + KeyObjects[a].width,
                 KeyObjects[b].x + KeyObjects[b].width)
    /\ Max(KeyObjects[a].y, KeyObjects[b].y)
          <= Min(KeyObjects[a].y + KeyObjects[a].height,
                 KeyObjects[b].y + KeyObjects[b].height)

\* two distinct keys of the list intersect
HasIntersectingPair ==
    \E i, j \in DOMAIN kb_keys :
        kb_keys[i] # kb_keys[j] /\ RectsMeet(kb_keys[i], kb_keys[j])

IsValueError(exc) == exc \in {"ValueError(intersecting)", "ValueError(letters)"}

\* C15: construction fails with a ValueError whenever two distinct keys of
\* the list intersect (overlap or touch), in whatever order the loop pops
\* the keys from its working set; such a list is never accepted.
C15_IntersectingPairRaisesValueError ==
    (kb_exc # "idle" /\ HasIntersectingPair) => IsValueError(kb_exc)

\* construction failed on a list of three or more keys although the key
\* popped first meets none of the others
C15_Witness ==
    /\ kb_exc = "ValueError(intersecting)"
    /\ Len(pop_order) >= 3
    /\ \A j \in 2..Len(pop_order) : ~RectsMeet(pop_order[1], pop_order[j])

\* the entries of the list whose key carries the letter, in list order
KeysWithLetter(letter) ==
    SelectSeq(kb_keys, LAMBDA k : KeyObjects[k].letter = letter)

\* C16: absent intersections, construction fails with a ValueError iff
\* some letter is on more than three keys of the list; on a constructed
\* Keyboard find_letter(l) is the 3-tuple of the list's keys with letter l
\* in list order, filled from the left and padded with None, and
\* (None, None, None) for a letter on no key.
C16_LetterLimitAndFindLetter ==
    /\ (kb_exc # "idle" /\ ~HasIntersectingPair) =>
          (IsValueError(kb_exc) <=>
              \E l \in { KeyObjects[k].letter : k \in set(kb_keys) } :
                  Len(KeysWithLetter(l)) > 3)
    /\ kb_ret.op = "find_letter" =>
          /\ Len(KeysWithLetter(kb_ret.arg)) <= 3
          /\ kb_ret.result =
                [ i \in 1..3 |-> IF i <= Len(KeysWithLetter(kb_ret.arg))
                                 THEN KeysWithLetter(kb_ret.arg)[i]
                                 ELSE None ]

\* find_letter returned three keys, on a keyboard that also carries
\* another letter
C16_Witness ==
    /\ kb_ret.op = "find_letter"
    /\ kb_ret.result[3] # None
    /\ Len(kb_keys) > 3

\* the distinct keys of the keyboard the point is on
KeysContaining(p) == { k \in set(kb_keys) : check_position(k, p[1], p[2]) }

\* C17: on a constructed Keyboard at most one distinct key contains any
\* point, edges included; key_at returns the same key for every order of
\* the key list, and None exactly when no key contains the point.
C17_AtMostOneKeyContainsAPoint ==
    kb_exc = "none" =>
        /\ \A p \in Points : Cardinality(KeysContaining(p)) <= 1
        /\ kb_ret.op = "key_at" =>
              /\ (kb_ret.result = None <=> KeysContaining(kb_ret.arg) = {})
              /\ kb_ret.result # None => kb_ret.result \in KeysContaining(kb_ret.arg)
              /\ \A o \in PopOrders(set(kb_keys)) :
                    key_at(o, kb_ret.arg[1], kb_ret.arg[2]) = kb_ret.result

\* key_at found a key for a point on the corner of that key, on a keyboard
\* of at least three distinct keys
C17_Witness ==
    /\ kb_ret.op = "key_at"
    /\ kb_ret.result # None
    /\ kb_ret.arg[1] = KeyObjects[kb_ret.result].x + KeyObjects[kb_ret.result].width
    /\ kb_ret.arg[2] = KeyObjects[kb_ret.result].y + KeyObjects[kb_ret.result].height
    /\ Cardinality(set(kb_keys)) >= 3

====
